---- MODULE Spec2Model ----
(***************************************************************************)
(* A model of the easy-error crate: the string-context Error type, the     *)
(* ResultExt context-attachment methods, the Causes iterator with the      *)
(* ErrorExt methods built on it, the err_msg constructor with the bail!,   *)
(* ensure! and format_err! macros, and the Terminator debug rendering.     *)
(*                                                                         *)
(* A dyn Error value is a record.  An easy_error::Error is               *)
(*   [type |-> "Error", ctx, location, cause]                              *)
(* and an error of any other crate (io::Error, ParseIntError, a user type) *)
(* is [type |-> "Foreign", pieces, src], pieces being the texts its own    *)
(* Display writes, one write_str call each.  Ownership is by nesting, so a *)
(* chain is acyclic by construction.                                       *)
(***************************************************************************)
EXTENDS Integers, Sequences, FiniteSets, TLC

VARIABLES
    res,        \* the Result the program currently holds
    hist,       \* the last operation applied: its name and its inputs
    origin,     \* the error that started the current failure
    applied,    \* the contexts attached to origin since, oldest first
    nCtxFn,     \* invocations of a with_context closure so far
    nErrCalls,  \* with_context calls made on an Err result so far
    nOkCalls,   \* with_context calls made on an Ok result so far
    itKind,     \* "none", or how the live Causes iterator was obtained
    it,         \* the live Causes iterator
    yielded,    \* the items next() has returned on it, in order
    lookups,    \* source() calls made for it, its construction included
    lastNext,   \* what the latest next() on it returned
    afterNone,  \* 0 until next() first returns None, then the next() calls made from that one on
    root,       \* what find_root_cause returned
    term,       \* the Terminator main returned
    out         \* the writer its Debug implementation wrote to: the text, and whether a write failed

vars == <<res, hist, origin, applied, nCtxFn, nErrCalls, nOkCalls, itKind, it, yielded,
          lookups, lastNext, afterNone, root, term, out>>

(***************************************************************************)
(* Bounds of the model.                                                    *)
(***************************************************************************)
\* the contexts the program attaches to one failure
MaxAttach == 2
\* next() calls followed after an iterator first returned None
MaxAfterNone == 2
\* with_context calls followed on an Ok result
MaxOkCalls == 2
\* the latest write_str call from which the writer of a rendering may fail
MaxFailAt == 6
\* the most characters a writer of limited room accepts
MaxRoom == 24

(***************************************************************************)
(* Option and Result.                                                      *)
(***************************************************************************)
None == [tag |-> "None"]
Some(x) == [tag |-> "Some", val |-> x]
Unset == [tag |-> "Unset"]
IsSome(o) == o.tag = "Some"
IsNone(o) == o.tag = "None"

Ok(v) == [tag |-> "Ok", val |-> v]
Err(e) == [tag |-> "Err", err |-> e]

(***************************************************************************)
(* Inputs.  A context is any S: ToString: here a string slice or an i32. *)
(* A call site is what Location::caller() reports.                         *)
(***************************************************************************)
StrCtx(s) == [k |-> "str", s |-> s]
IntCtx(n) == [k |-> "int", n |-> n]
CtxValues == {StrCtx("Could not open file"), IntCtx(-7)}

Locations == {[file |-> "src/main.rs", line |-> 6, col |-> 37],
              [file |-> "src/lib.rs", line |-> 12, col |-> 9]}

\* <S as ToString>::to_string
ToStr(v) == IF v.k = "str" THEN v.s ELSE ToString(v.n)

(***************************************************************************)
(* The writer behind a Formatter.  How it fails is the writer's own: one   *)
(* kind fails every write_str call from call number failAt on and writes   *)
(* nothing of it (never, when failAt = 0); the other has room for a number *)
(* of characters, writes the part of a text that fits and fails when some  *)
(* of it does not (room = -1: no limit).  A failed write is returned at    *)
(* once by every caller (the ? operator), so nothing is written after it.  *)
(* to_string() formats into a String, which never fails.                   *)
(***************************************************************************)
Sink(failAt) ==
    [buf |-> "", calls |-> 0, failAt |-> failAt, room |-> -1, err |-> FALSE]

ByteSink(room) ==
    [buf |-> "", calls |-> 0, failAt |-> 0, room |-> room, err |-> FALSE]

write_str(w, s) ==
    IF w.err THEN w
    ELSE IF w.failAt # 0 /\ w.calls + 1 >= w.failAt
         THEN [w EXCEPT !.calls = @ + 1, !.err = TRUE]
    ELSE IF w.room >= 0 /\ Len(s) > w.room
         THEN [w EXCEPT !.calls = @ + 1, !.buf = @ \o SubSeq(s, 1, w.room),
                        !.room = 0, !.err = TRUE]
    ELSE [w EXCEPT !.calls = @ + 1, !.buf = @ \o s,
                   !.room = IF @ >= 0 THEN @ - Len(s) ELSE @]

\* the texts of pieces written in order
RECURSIVE WritePieces(_, _)
WritePieces(w, pieces) ==
    IF pieces = <<>> THEN w
    ELSE WritePieces(write_str(w, Head(pieces)), Tail(pieces))

\* <Location as Display>::fmt : write!(f, "{}:{}:{}", file, line, col)
LocationFmt(loc, w) ==
    write_str(write_str(write_str(write_str(write_str(w,
        loc.file), ":"), ToString(loc.line)), ":"), ToString(loc.col))

LocationDisplay(loc) == LocationFmt(loc, Sink(0)).buf

\* an error that writes its message in one piece and has no source
ForeignLeaf(msg) == [type |-> "Foreign", pieces |-> <<msg>>, src |-> None]
\* an error that writes its message in one piece and has e as source
ForeignWrap(msg, e) == [type |-> "Foreign", pieces |-> <<msg>>, src |-> Some(e)]
\* the io::Error of an OS error code: "<msg> (os error <code>)" in four pieces
IoError(msg, code) ==
    [type |-> "Foreign", pieces |-> <<msg, " (os error ", ToString(code), ")">>,
     src |-> None]

\* The errors of other crates a fallible call may hand to the program: the
\* io::Error of File::open on a missing file, one with a source of its own,
\* and a user type that wraps an easy_error::Error.
ForeignErrors ==
    {IoError("No such file or directory", 2),
     ForeignWrap("invalid config", ForeignLeaf("invalid digit found in string")),
     ForeignWrap("worker failed",
                 [type |-> "Error", ctx |-> "Value cannot be zero",
                  location |-> [file |-> "src/lib.rs", line |-> 12, col |-> 9],
                  cause |-> None])}

\* <E as Display>::fmt of an error of another crate
ForeignFmt(e, w) == WritePieces(w, e.pieces)

OkValues == {1}

(***************************************************************************)
(* struct Error and its Display and error::Error implementations.          *)
(***************************************************************************)
Error_new(ctx, loc, cause) ==
    [type |-> "Error", ctx |-> ToStr(ctx), location |-> loc, cause |-> Some(cause)]

\* ErrorDisplay as it would be if the rendering also wrote the cause
ErrorDisplayWithCause(e) ==
    e.ctx \o " (" \o LocationDisplay(e.location) \o ")"
          \o (IF IsNone(e.cause) THEN ""
              ELSE IF e.cause.val.type = "Error" THEN ": " \o e.cause.val.ctx
              ELSE ": " \o ForeignFmt(e.cause.val, Sink(0)).buf)

\* <Error as Display>::fmt : write!(f, "{} ({})", self.ctx, self.location)
ErrorFmt(e, w) ==
    write_str(LocationFmt(e.location, write_str(write_str(w, e.ctx), " (")), ")")

\* e.to_string()
ErrorDisplay(e) == ErrorFmt(e, Sink(0)).buf

ErrorDescription(e) == e.ctx

ErrorSource(e) == IF IsSome(e.cause) THEN Some(e.cause.val) ELSE None

\* dynamic dispatch on a dyn Error
Fmt(e, w) == IF e.type = "Error" THEN ErrorFmt(e, w) ELSE ForeignFmt(e, w)
Display(e) == IF e.type = "Error" THEN ErrorDisplay(e) ELSE Fmt(e, Sink(0)).buf
Source(e) == IF e.type = "Error" THEN ErrorSource(e) ELSE e.src

\* err_msg as it would be if it boxed the message as a cause of its own
err_msg_with_cause(ctx, loc) ==
    [type |-> "Error", ctx |-> ToStr(ctx), location |-> loc,
     cause |-> Some(ForeignLeaf(ToStr(ctx)))]

err_msg(ctx, loc) ==
    [type |-> "Error", ctx |-> ToStr(ctx), location |-> loc, cause |-> None]

(***************************************************************************)
(* ResultExt.  A closure is a record of the value it returns; called     *)
(* counts its invocations by the method.                                   *)
(***************************************************************************)
Closure(v) == [ret |-> v]
CallFn(f) == f.ret

\* context as it would be if the new Error took over the cause of the
\* error it wraps instead of the error itself
context_replacing(r, ctx, loc) ==
    IF r.tag = "Ok" THEN r
    ELSE Err([type |-> "Error", ctx |-> ToStr(ctx), location |-> loc,
              cause |-> Source(r.err)])

\* context as it would be if the original error were dropped
context_discarding(r, ctx, loc) ==
    IF r.tag = "Ok" THEN r
    ELSE Err([type |-> "Error", ctx |-> ToStr(ctx), location |-> loc,
              cause |-> None])

context(r, ctx, loc) ==
    IF r.tag = "Ok" THEN r
    ELSE Err([type |-> "Error", ctx |-> ToStr(ctx), location |-> loc,
              cause |-> Some(r.err)])

\* with_context as it would be if the closure were called before map_err
with_context_eager(r, ctx_fn, loc) ==
    IF r.tag = "Ok" THEN [res |-> r, called |-> 1]
    ELSE [res |-> Err([type |-> "Error", ctx |-> ToStr(CallFn(ctx_fn)),
                       location |-> loc, cause |-> Some(r.err)]),
          called |-> 1]

with_context(r, ctx_fn, loc) ==
    IF r.tag = "Ok" THEN [res |-> r, called |-> 0]
    ELSE [res |-> Err([type |-> "Error", ctx |-> ToStr(CallFn(ctx_fn)),
                       location |-> loc, cause |-> Some(r.err)]),
          called |-> 1]

(***************************************************************************)
(* macros.rs.  A macro call takes either the arm of one context expression *)
(* or the arm of a format string with arguments; the second arm hands      *)
(* err_msg the String that format! returned, which is an input here.  The  *)
(* into() of bail! and ensure! is the identity in a function returning     *)
(* Result<_, Error>.                                                       *)
(***************************************************************************)
CtxArm(c) == [arm |-> "ctx", ctx |-> c]
FmtArm(text) == [arm |-> "fmt", text |-> text]
MacroArgs ==
    {CtxArm(c) : c \in CtxValues}
        \cup {FmtArm("Value must be greater than zero (found -7)")}

\* the argument of err_msg in either arm
MacroCtx(a) == IF a.arm = "ctx" THEN a.ctx ELSE StrCtx(a.text)

bail(a, loc) == Err(err_msg(MacroCtx(a), loc))

ensure(r, cond, a, loc) == IF ~cond THEN Err(err_msg(MacroCtx(a), loc)) ELSE r

format_err(a, loc) == err_msg(StrCtx(a.text), loc)

(***************************************************************************)
(* struct Causes and its Iterator implementation.  lookups is the number *)
(* of source() calls the step made.                                        *)
(***************************************************************************)
\* next() as it would be if it yielded only the errors of this crate,
\* the cursor advancing all the same
CausesNextOwnOnly(c) ==
    LET cause == c.cause
    IN  [item |-> IF IsSome(cause) /\ cause.val.type = "Error" THEN cause ELSE None,
         it |-> [cause |-> IF IsSome(cause) THEN Source(cause.val) ELSE None],
         lookups |-> IF IsSome(cause) THEN 1 ELSE 0]

\* next() as it would be if it asked for the source once to test it and
\* once more to store it
CausesNextTwoLookups(c) ==
    LET cause == c.cause
    IN  [item |-> cause,
         it |-> [cause |-> IF IsSome(cause) THEN Source(cause.val) ELSE None],
         lookups |-> IF IsSome(cause) THEN 2 ELSE 0]

CausesNext(c) ==
    LET cause == c.cause
    IN  [item |-> cause,
         it |-> [cause |-> IF IsSome(cause) THEN Source(cause.val) ELSE None],
         lookups |-> IF IsSome(cause) THEN 1 ELSE 0]

\* Iterator::nth, the provided method: n items are skipped by next(), the
\* walk stopping at the first None, and one more next() gives the result.
RECURSIVE IterNth(_, _)
IterNth(c, n) ==
    LET r == CausesNext(c)
    IN  IF n = 0 \/ IsNone(r.item) THEN r
        ELSE LET s == IterNth(r.it, n - 1)
             IN  [item |-> s.item, it |-> s.it, lookups |-> r.lookups + s.lookups]

\* Iterator::last, the provided method: a fold keeping the latest item.
RECURSIVE IterLastFrom(_, _)
IterLastFrom(c, acc) ==
    LET r == CausesNext(c)
    IN  IF IsNone(r.item) THEN acc ELSE IterLastFrom(r.it, r.item)

IterLast(c) == IterLastFrom(c, None)

(***************************************************************************)
(* trait ErrorExt.                                                         *)
(***************************************************************************)
iter_chain(e) == [cause |-> Some(e)]

\* iter_causes as it would be with nth(0)
iter_causes_nth0(e) ==
    LET r == IterNth(iter_chain(e), 0)
    IN  [it |-> [cause |-> r.item], lookups |-> r.lookups]

iter_causes(e) ==
    LET r == IterNth(iter_chain(e), 1)
    IN  [it |-> [cause |-> r.item], lookups |-> r.lookups]

\* find_root_cause as it would be if it walked the causes only
find_root_cause_of_causes(e) ==
    LET l == IterLast([cause |-> Source(e)])
    IN  [panic |-> IsNone(l), val |-> l]

\* panic is the failure of the expect()
find_root_cause(e) ==
    LET l == IterLast(iter_chain(e))
    IN  [panic |-> IsNone(l), val |-> l]

(***************************************************************************)
(* terminator.rs.  writeln!(f, "{}", e) formats e and writes a newline;     *)
(* writeln!(f, "Caused by: {}", e) writes the prefix first.  Each ? leaves *)
(* fmt at the first failed write.  The free function iter_causes that the  *)
(* rendering calls is not defined in the crate's sources; it is the        *)
(* iterator over the causes of an error, the error itself excluded.        *)
(***************************************************************************)
Terminator_from(e) == [inner |-> e]

writeln(w, prefix, e) ==
    write_str(Fmt(e, IF prefix = "" THEN w ELSE write_str(w, prefix)), "\n")

free_iter_causes(e) == [cause |-> Source(e)]

RECURSIVE WriteCauses(_, _)
WriteCauses(w, c) ==
    LET r == CausesNext(c)
    IN  IF IsNone(r.item) THEN w
        ELSE LET w2 == writeln(w, "Caused by: ", r.item.val)
             IN  IF w2.err THEN w2 ELSE WriteCauses(w2, r.it)

\* the rendering as it would be if it walked the chain from the inner error
TerminatorFmtChain(t, w) ==
    LET w1 == writeln(w, "", t.inner)
    IN  IF w1.err THEN w1 ELSE WriteCauses(w1, [cause |-> Some(t.inner)])

\* <Terminator as Debug>::fmt on the writer w; Err(fmt::Error) is the err
\* flag of the writer returned
TerminatorFmt(t, w) ==
    LET w1 == writeln(w, "", t.inner)
    IN  IF w1.err THEN w1 ELSE WriteCauses(w1, free_iter_causes(t.inner))

(***************************************************************************)
(* Measures of a chain, by the links alone.                                *)
(***************************************************************************)
RECURSIVE ChainOf(_)
ChainOf(e) ==
    IF e.type = "Error"
    THEN IF e.cause.tag = "Some" THEN <<e>> \o ChainOf(e.cause.val) ELSE <<e>>
    ELSE IF e.src.tag = "Some" THEN <<e>> \o ChainOf(e.src.val) ELSE <<e>>

Depth(e) == Len(ChainOf(e))

(***************************************************************************)
(* The program: a fallible call has returned, contexts are attached on the *)
(* way up, and the error is inspected or returned from main.               *)
(***************************************************************************)
Init ==
    /\ res \in {Ok(v) : v \in OkValues} \cup {Err(f) : f \in ForeignErrors}
    /\ hist = [op |-> "init"]
    /\ origin = IF res.tag = "Err" THEN Some(res.err) ELSE None
    /\ applied = <<>>
    /\ nCtxFn = 0
    /\ nErrCalls = 0
    /\ nOkCalls = 0
    /\ itKind = "none"
    /\ it = [cause |-> None]
    /\ yielded = <<>>
    /\ lookups = 0
    /\ lastNext = Unset
    /\ afterNone = 0
    /\ root = None
    /\ term = None
    /\ out = Sink(0)

\* nothing borrows the error and main has not returned
Idle == itKind = "none" /\ IsNone(root) /\ IsNone(term)

CanGrow == Len(applied) < MaxAttach

Attached(c, loc) ==
    IF res.tag = "Err" THEN Append(applied, [ctx |-> c, loc |-> loc]) ELSE applied

\* res.context(c) called at loc
Context(c, loc) ==
    /\ Idle /\ CanGrow
    /\ res' = context(res, c, loc)
    /\ hist' = [op |-> "context", in |-> res, ctx |-> c, loc |-> loc]
    /\ applied' = Attached(c, loc)
    /\ UNCHANGED <<origin, nCtxFn, nErrCalls, nOkCalls, itKind, it, yielded, lookups,
                   lastNext, afterNone, root, term, out>>

\* res.with_context(|| c) called at loc
WithContext(c, loc) ==
    /\ Idle /\ CanGrow
    /\ res.tag = "Ok" => nOkCalls < MaxOkCalls
    /\ LET r == with_context(res, Closure(c), loc)
       IN  /\ res' = r.res
           /\ nCtxFn' = nCtxFn + r.called
    /\ nErrCalls' = IF res.tag = "Err" THEN nErrCalls + 1 ELSE nErrCalls
    /\ nOkCalls' = IF res.tag = "Ok" THEN nOkCalls + 1 ELSE nOkCalls
    /\ hist' = [op |-> "with_context", in |-> res, ctx |-> Closure(c), loc |-> loc]
    /\ applied' = Attached(c, loc)
    /\ UNCHANGED <<origin, itKind, it, yielded, lookups, lastNext, afterNone,
                   root, term, out>>

\* res.map_err(|e| Error::new(c, e)) with the closure at loc
ErrorNew(c, loc) ==
    /\ Idle /\ CanGrow
    /\ res.tag = "Err"
    /\ res' = Err(Error_new(c, loc, res.err))
    /\ hist' = [op |-> "new", in |-> res, ctx |-> c, loc |-> loc]
    /\ applied' = Attached(c, loc)
    /\ UNCHANGED <<origin, nCtxFn, nErrCalls, nOkCalls, itKind, it, yielded, lookups,
                   lastNext, afterNone, root, term, out>>

Originate(r, h) ==
    /\ res' = r
    /\ hist' = h
    /\ origin' = IF r.tag = "Err" THEN Some(r.err) ELSE origin
    /\ applied' = <<>>
    /\ UNCHANGED <<nCtxFn, nErrCalls, nOkCalls, itKind, it, yielded, lookups, lastNext,
                   afterNone, root, term, out>>

\* return Err(err_msg(c)) at loc
ErrMsg(c, loc) ==
    /\ Idle
    /\ res.tag = "Ok"
    /\ Originate(Err(err_msg(c, loc)), [op |-> "err_msg", in |-> res, ctx |-> c, loc |-> loc])

\* bail!(...) at loc
Bail(a, loc) ==
    /\ Idle
    /\ res.tag = "Ok"
    /\ Originate(bail(a, loc), [op |-> "bail", in |-> res, ctx |-> a, loc |-> loc])

\* ensure!(cond, ...) at loc
Ensure(cond, a, loc) ==
    /\ Idle
    /\ res.tag = "Ok"
    /\ Originate(ensure(res, cond, a, loc),
                 [op |-> "ensure", in |-> res, ctx |-> a, loc |-> loc, cond |-> cond])

\* return Err(format_err!(...)) at loc
FormatErr(a, loc) ==
    /\ Idle
    /\ res.tag = "Ok"
    /\ a.arm = "fmt"
    /\ Originate(Err(format_err(a, loc)),
                 [op |-> "format_err", in |-> res, ctx |-> a, loc |-> loc])

\* let it = e.iter_chain()
IterChain ==
    /\ Idle
    /\ res.tag = "Err"
    /\ itKind' = "chain"
    /\ it' = iter_chain(res.err)
    /\ yielded' = <<>>
    /\ lookups' = 0
    /\ lastNext' = Unset
    /\ afterNone' = 0
    /\ UNCHANGED <<res, hist, origin, applied, nCtxFn, nErrCalls, nOkCalls, root, term, out>>

\* let it = e.iter_causes()
IterCauses ==
    /\ Idle
    /\ res.tag = "Err"
    /\ itKind' = "causes"
    /\ LET r == iter_causes(res.err)
       IN  /\ it' = r.it
           /\ lookups' = r.lookups
    /\ yielded' = <<>>
    /\ lastNext' = Unset
    /\ afterNone' = 0
    /\ UNCHANGED <<res, hist, origin, applied, nCtxFn, nErrCalls, nOkCalls, root, term, out>>

\* it.next()
IterNext ==
    /\ itKind # "none"
    /\ afterNone <= MaxAfterNone
    /\ LET r == CausesNext(it)
       IN  /\ it' = r.it
           /\ lastNext' = r.item
           /\ lookups' = lookups + r.lookups
           /\ yielded' = IF IsSome(r.item) THEN Append(yielded, r.item.val) ELSE yielded
           /\ afterNone' = IF afterNone > 0 \/ IsNone(r.item) THEN afterNone + 1 ELSE 0
    /\ UNCHANGED <<res, hist, origin, applied, nCtxFn, nErrCalls, nOkCalls, itKind, root,
                   term, out>>

\* let root = e.find_root_cause()
FindRootCause ==
    /\ Idle
    /\ res.tag = "Err"
    /\ root' = Some(find_root_cause(res.err))
    /\ UNCHANGED <<res, hist, origin, applied, nCtxFn, nErrCalls, nOkCalls, itKind, it,
                   yielded, lookups, lastNext, afterNone, term, out>>

\* the iterator or the root reference goes out of scope
Release ==
    /\ itKind # "none" \/ IsSome(root)
    /\ itKind' = "none"
    /\ it' = [cause |-> None]
    /\ yielded' = <<>>
    /\ lookups' = 0
    /\ lastNext' = Unset
    /\ afterNone' = 0
    /\ root' = None
    /\ UNCHANGED <<res, hist, origin, applied, nCtxFn, nErrCalls, nOkCalls, term, out>>

\* the writers a rendering may be given
Writers ==
    {Sink(n) : n \in 0..MaxFailAt} \cup {ByteSink(r) : r \in 0..MaxRoom}

\* main returns the error through the ? operator: From converts it, the
\* runtime prints the Terminator with its Debug implementation, on a writer
\* that may fail
Terminate(w) ==
    /\ Idle
    /\ res.tag = "Err"
    /\ LET t == Terminator_from(res.err)
       IN  /\ term' = Some(t)
           /\ out' = TerminatorFmt(t, w)
    /\ UNCHANGED <<res, hist, origin, applied, nCtxFn, nErrCalls, nOkCalls, itKind, it,
                   yielded, lookups, lastNext, afterNone, root>>

Next ==
    \/ \E c \in CtxValues, loc \in Locations : Context(c, loc)
    \/ \E c \in CtxValues, loc \in Locations : WithContext(c, loc)
    \/ \E c \in CtxValues, loc \in Locations : ErrorNew(c, loc)
    \/ \E c \in CtxValues, loc \in Locations : ErrMsg(c, loc)
    \/ \E a \in MacroArgs, loc \in Locations : Bail(a, loc)
    \/ \E cond \in BOOLEAN, a \in MacroArgs, loc \in Locations : Ensure(cond, a, loc)
    \/ \E a \in MacroArgs, loc \in Locations : FormatErr(a, loc)
    \/ IterChain
    \/ IterCauses
    \/ IterNext
    \/ FindRootCause
    \/ Release
    \/ \E w \in Writers : Terminate(w)

Spec == Init /\ [][Next]_vars

(***************************************************************************)
(* Helpers of the properties.                                              *)
(***************************************************************************)
\* the depth of the chain as the program built it
BuiltDepth == Depth(origin.val) + Len(applied)

LocationSuffix(loc) == " (" \o LocationDisplay(loc) \o ")"

EndsWith(s, suffix) ==
    /\ Len(suffix) <= Len(s)
    /\ SubSeq(s, Len(s) - Len(suffix) + 1, Len(s)) = suffix

\* s without the given suffix, which it must end with
WithoutSuffix(s, suffix) == SubSeq(s, 1, Len(s) - Len(suffix))

\* the positions of the newlines of a text
Newlines(s) == {i \in 1..Len(s) : SubSeq(s, i, i) = "\n"}

\* the position of the j-th newline of a text
NthNewline(s, j) ==
    CHOOSE i \in Newlines(s) : Cardinality({x \in Newlines(s) : x < i}) = j - 1

\* the lines of a text in which every line ends with a newline
SplitLines(s) ==
    [j \in 1..Cardinality(Newlines(s)) |->
        SubSeq(s, IF j = 1 THEN 1 ELSE NthNewline(s, j - 1) + 1, NthNewline(s, j) - 1)]

IsPrefixOf(p, q) == Len(p) <= Len(q) /\ p = SubSeq(q, 1, Len(p))

(***************************************************************************)
(* C1 (as amended).  context passes Ok(v) through unchanged; on Err(x) it  *)
(* returns Err(E) where E's ctx is the stringified context, E's source()   *)
(* is x itself, E displays as the message followed by " (<location>)" of   *)
(* the call site, and E's source displays as x does.                       *)
(***************************************************************************)
C1_ContextWraps ==
    hist.op = "context" =>
        /\ hist.in.tag = "Ok" => res = hist.in
        /\ hist.in.tag = "Err" =>
            /\ res.tag = "Err"
            /\ res.err.type = "Error"
            /\ res.err.ctx = ToStr(hist.ctx)
            /\ ErrorDescription(res.err) = ToStr(hist.ctx)
            /\ Source(res.err) = Some(hist.in.err)
            /\ Display(res.err) = ToStr(hist.ctx) \o LocationSuffix(hist.loc)
            /\ Display(Source(res.err).val) = Display(hist.in.err)

\* C1 as stated: the same, with E displaying as exactly the message
C1_AsStated ==
    hist.op = "context" =>
        /\ hist.in.tag = "Ok" => res = hist.in
        /\ hist.in.tag = "Err" =>
            /\ res.tag = "Err"
            /\ res.err.ctx = ToStr(hist.ctx)
            /\ Source(res.err) = Some(hist.in.err)
            /\ Display(res.err) = ToStr(hist.ctx)
            /\ Display(Source(res.err).val) = Display(hist.in.err)

\* context has wrapped a failure whose error has a source of its own
C1_Witness ==
    /\ hist.op = "context"
    /\ hist.in.tag = "Err"
    /\ IsSome(Source(hist.in.err))
    /\ res.tag = "Err"

(***************************************************************************)
(* C2.  with_context invokes its closure once when the result is Err and   *)
(* never when it is Ok: the invocations so far are as many as the calls    *)
(* made on an Err, whatever the calls made on an Ok; and its result is     *)
(* that of context with the closure's value.                               *)
(***************************************************************************)
C2_WithContextLazy ==
    /\ nCtxFn = nErrCalls
    /\ hist.op = "with_context" =>
           res = context(hist.in, CallFn(hist.ctx), hist.loc)

\* with_context has been called on an Ok and, later, twice on an Err
C2_Witness ==
    /\ hist.op = "with_context"
    /\ nOkCalls >= 1
    /\ nErrCalls >= 2

(***************************************************************************)
(* C3.  An Error built by Error::new(ctx, cause) displays as ctx's string, *)
(* the location suffix aside; the display is the one of the same Error     *)
(* with no cause, so nothing of the cause is in it; and its source() is    *)
(* the cause that was passed in.                                           *)
(***************************************************************************)
C3_NewDisplayAndSource ==
    hist.op = "new" =>
        /\ res.tag = "Err"
        /\ EndsWith(Display(res.err), LocationSuffix(hist.loc))
        /\ WithoutSuffix(Display(res.err), LocationSuffix(hist.loc)) = ToStr(hist.ctx)
        /\ Display(res.err) = Display([res.err EXCEPT !.cause = None])
        /\ Source(res.err) = Some(hist.in.err)

\* Error::new has wrapped a foreign error under an integer context
C3_Witness ==
    /\ hist.op = "new"
    /\ hist.ctx.k = "int"
    /\ hist.in.err.type = "Foreign"

(***************************************************************************)
(* C4.  An Error made by err_msg, directly or through bail!, ensure! or    *)
(* format_err!, has no source, and the iterator over its causes yields     *)
(* nothing.                                                                *)
(***************************************************************************)
C4_ErrMsgNoSource ==
    (hist.op \in {"err_msg", "bail", "ensure", "format_err"} /\ res.tag = "Err") =>
        /\ IsNone(Source(res.err))
        /\ IsNone(CausesNext(iter_causes(res.err).it).item)
        /\ (itKind = "causes" /\ afterNone > 0) => yielded = <<>>

\* ensure! has failed with a formatted message and its causes were walked
C4_Witness ==
    /\ hist.op = "ensure"
    /\ hist.ctx.arm = "fmt"
    /\ res.tag = "Err"
    /\ itKind = "causes"
    /\ afterNone > 0

(***************************************************************************)
(* C5.  For a chain built to depth N with top error E, the iterator of     *)
(* E.iter_chain() yields E first and N items in all, the iterator of       *)
(* E.iter_causes() yields E's immediate cause first and N-1 items in all,  *)
(* the chain's items with the first dropped, both from the most recent to  *)
(* the root, and only then return None.                                    *)
(***************************************************************************)
C5_ChainAndCauses ==
    itKind # "none" =>
        LET chain == ChainOf(res.err)
            expect == IF itKind = "chain" THEN chain ELSE Tail(chain)
        IN  /\ Len(chain) = BuiltDepth
            /\ IsPrefixOf(yielded, expect)
            /\ afterNone > 0 =>
                /\ yielded = expect
                /\ Len(yielded) = IF itKind = "chain" THEN BuiltDepth
                                  ELSE BuiltDepth - 1
            /\ (itKind = "chain" /\ Len(yielded) >= 1) => yielded[1] = res.err
            /\ (itKind = "causes" /\ Len(yielded) >= 1) =>
                   Some(yielded[1]) = Source(res.err)

\* the causes of a chain of depth 4 have been walked to the end
C5_Witness ==
    /\ itKind = "causes"
    /\ afterNone > 0
    /\ BuiltDepth = 4
    /\ Len(yielded) = 3

(***************************************************************************)
(* C6.  Once next() has returned None on an iterator, every later next()   *)
(* on it returns None, yields nothing and leaves the cursor empty.         *)
(***************************************************************************)
C6_ExhaustedStaysExhausted ==
    [][(afterNone >= 1 /\ afterNone' = afterNone + 1) =>
           (IsNone(lastNext') /\ yielded' = yielded /\ IsNone(it'.cause))]_vars

\* next() has been called twice more after the first None, on an iterator
\* that had yielded items
C6_Witness ==
    /\ itKind # "none"
    /\ afterNone = 3
    /\ Len(yielded) >= 2
    /\ IsNone(lastNext)

(***************************************************************************)
(* C7.  The debug rendering of a Terminator whose inner error has a chain  *)
(* of depth N, as fmt writes it when it returns Ok, is N lines: the inner  *)
(* error's display, then for each cause, root-ward, "Caused by: " and its  *)
(* display; one line when N = 1.  When the writer fails, fmt returns the   *)
(* failure and has written only a beginning of that rendering.             *)
(***************************************************************************)
C7_TerminatorLines ==
    IsSome(term) =>
        LET chain == ChainOf(term.val.inner)
            lines == SplitLines(out.buf)
            full == TerminatorFmt(term.val, Sink(0))
        IN  /\ term.val.inner = res.err
            /\ Len(chain) = BuiltDepth
            /\ ~out.err =>
                /\ Len(lines) = BuiltDepth
                /\ EndsWith(out.buf, "\n")
                /\ lines[1] = Display(chain[1])
                /\ \A i \in 2..Len(chain) :
                       lines[i] = "Caused by: " \o Display(chain[i])
                /\ Len(chain) = 1 => out.buf = Display(term.val.inner) \o "\n"
            /\ out.err <=> \/ out.failAt # 0 /\ out.failAt <= full.calls
                           \/ out.room = 0 /\ Len(out.buf) < Len(full.buf)
            /\ out.err =>
                /\ out.failAt # 0 => out.calls = out.failAt
                /\ IsPrefixOf(out.buf, full.buf)
                /\ out.buf # full.buf

\* a chain of three levels over a foreign root has been rendered in full
C7_Witness ==
    /\ IsSome(term)
    /\ ~out.err
    /\ Depth(term.val.inner) = 3
    /\ Len(applied) = 2
    /\ Len(SplitLines(out.buf)) = 3

(***************************************************************************)
(* C8 (as amended).  Each next() that yields an item makes one source()    *)
(* lookup and one that returns None makes none.  iter_chain makes no       *)
(* lookup, so after k items exactly k have been made.  iter_causes         *)
(* advances a chain iterator with nth(1), which makes min(N, 2) lookups    *)
(* on a chain of depth N before the caller has an item, so after k items   *)
(* min(N, 2) + k have been made.                                           *)
(***************************************************************************)
C8_LookupsPerItem ==
    /\ itKind = "chain" => lookups = Len(yielded)
    /\ itKind = "causes" =>
           lookups = (IF Depth(res.err) >= 2 THEN 2 ELSE 1) + Len(yielded)

\* C8 as stated: after k items exactly k lookups, for both iterators
C8_AsStated ==
    itKind # "none" => lookups = Len(yielded)

\* an iterator from iter_causes has yielded two items
C8_Witness ==
    /\ itKind = "causes"
    /\ Len(yielded) = 2

(***************************************************************************)
(* C9.  Attaching contexts c1, ..., ck in that order to a failure whose    *)
(* error X has a chain of depth d gives an Error whose chain has depth     *)
(* d + k, whose first k items carry ck, ..., c1 and whose other d items    *)
(* are X's chain, unchanged and in order.                                  *)
(***************************************************************************)
C9_ContextOnlyAdds ==
    res.tag = "Err" =>
        LET chain == ChainOf(res.err)
            k == Len(applied)
            d == Depth(origin.val)
        IN  /\ Len(chain) = d + k
            /\ \A i \in 1..k :
                   /\ chain[i].type = "Error"
                   /\ chain[i].ctx = ToStr(applied[k + 1 - i].ctx)
                   /\ chain[i].location = applied[k + 1 - i].loc
            /\ SubSeq(chain, k + 1, k + d) = ChainOf(origin.val)

\* two contexts have been attached by context to an error of depth 2
C9_Witness ==
    /\ res.tag = "Err"
    /\ Len(applied) = 2
    /\ Depth(origin.val) = 2
    /\ hist.op = "context"
    /\ hist.in.tag = "Err" /\ hist.in.err.type = "Error"
    /\ applied[1].ctx # applied[2].ctx

(***************************************************************************)
(* C10.  find_root_cause never panics and returns the last item of the     *)
(* chain, the one error of the chain with no source, which is the error    *)
(* itself when it has no cause.                                            *)
(***************************************************************************)
C10_RootCause ==
    IsSome(root) =>
        LET chain == ChainOf(res.err)
        IN  /\ ~root.val.panic
            /\ root.val.val = Some(chain[Len(chain)])
            /\ IsNone(Source(root.val.val.val))
            /\ Cardinality({i \in 1..Len(chain) : IsNone(Source(chain[i]))}) = 1
            /\ IsNone(Source(res.err)) => root.val.val.val = res.err

\* the root of a chain of depth 3 has been found
C10_Witness ==
    /\ IsSome(root)
    /\ Depth(res.err) = 3
    /\ root.val.val.val # res.err

====
